---------------------------- MODULE Spec2Model ----------------------------
(***************************************************************************)
(* espwAlleleCaller: the batch pipeline of espwAlleleCaller.py (_runner)   *)
(* with the blastn (primary) and ariba (secondary) detectors of            *)
(* auxillary/blastn.py, auxillary/BlastHit.py and auxillary/ariba.py.      *)
(*                                                                         *)
(* A python dict is a sequence of <<key, value>> pairs with unique keys,   *)
(* in insertion order.  A line of a tab-separated file is the sequence of  *)
(* its fields.  A file of the sequence directory is <<stem, extension>>.   *)
(* The downloaders and the external tools (makeblastdb, blastn, ariba) are *)
(* collaborators: each call either fails or produces one of the outputs    *)
(* of a bounded set.                                                       *)
(***************************************************************************)
EXTENDS Integers, Sequences, FiniteSets, TLC

(***************************************************************************)
(* Bounds of the model.                                                    *)
(***************************************************************************)
MaxRows == 2
MaxCpus == 2
MaxHits == 3
MaxFrags == 2

MaxRecs == 3

MaxFields == 10

MaxAccns == 3

(***************************************************************************)
(* Input universes.                                                        *)
(***************************************************************************)
None == "None"

ABSENT == "absent"

EXT == ".fna"

\* lines of the input file: blank, too few fields, and well-formed rows
BlankLine == <<"">>

ShortLine == <<"A", "a1">>

GoodLines ==
    { <<"A", "a1", "s1">>, <<"B", "a2", "s2">>, <<"B", "a1", "s1">>,
      <<"A", "a2", "s2">> }

ManifestLines == {BlankLine, ShortLine} \cup GoodLines

SeqsUpTo(S, n) == UNION { [1..m -> S] : m \in 0..n }

Manifests == SeqsUpTo(ManifestLines, MaxRows)

\* files that may lie in the sequence directory before the run
SeqFiles == { <<"a1", ".fna">>, <<"a1", ".xfna">> }

(***************************************************************************)
(* python dict                                                             *)
(***************************************************************************)
Range(s) == { s[i] : i \in 1..Len(s) }

DictHas(d, k) == \E i \in 1..Len(d) : d[i][1] = k

DictGet(d, k) == d[CHOOSE i \in 1..Len(d) : d[i][1] = k][2]

\* a store that never finds the existing key
DictSetAppend(d, k, v) == Append(d, <<k, v>>)

\* d[k] = v : an existing key keeps its position, a new key goes last
DictSet(d, k, v) ==
    IF DictHas(d, k)
    THEN [i \in 1..Len(d) |-> IF d[i][1] = k THEN <<k, v>> ELSE d[i]]
    ELSE Append(d, <<k, v>>)

RECURSIVE DictUpdate(_, _)
\* d.update(e), also dict(pairs) as DictUpdate(<<>>, pairs)
DictUpdate(d, e) ==
    IF e = <<>> THEN d
    ELSE DictUpdate(DictSet(d, Head(e)[1], Head(e)[2]), Tail(e))

(***************************************************************************)
(* _parseFile                                                              *)
(***************************************************************************)
\* row[2] exists for every line that is not blank
ParseOk(lines) == \A i \in 1..Len(lines) : lines[i] = BlankLine \/ Len(lines[i]) >= 3

IsRow(line) == line # BlankLine

RowEntry(line) == <<line[1], <<line[2], line[3]>> >>

Rows(lines) == SelectSeq(lines, IsRow)

_parseFile(lines) ==
    DictUpdate(<<>>, [i \in 1..Len(Rows(lines)) |-> RowEntry(Rows(lines)[i])])

(***************************************************************************)
(* _removeExistingAccessions, _findMissingAccessions                       *)
(***************************************************************************)
\* glob("*.fna"): basenames
GlobDotFna(files) == { f \in files : f[2] = EXT }

\* glob("*fna") then splitext: the stems of every file whose name ends in fna
EndsWithFna(ext) == ext \in {".fna", ".xfna"}

GlobFnaStems(files) == { f[1] : f \in { g \in files : EndsWithFna(g[2]) } }

\* list.pop(idx)
PopAt(list, idx) == SubSeq(list, 1, idx - 1) \o SubSeq(list, idx + 1, Len(list))

RECURSIVE RemoveForward(_, _, _)
\* popping while the index runs upwards: the item after a popped one is skipped
RemoveForward(accessions, idx, files) ==
    IF idx > Len(accessions) THEN accessions
    ELSE IF <<accessions[idx], EXT>> \in files
    THEN RemoveForward(PopAt(accessions, idx), idx + 1, files)
    ELSE RemoveForward(accessions, idx + 1, files)

RECURSIVE RemoveReverse(_, _, _)
\* the loop of lines 69-72: idx runs from the last index down to the first
RemoveReverse(accessions, idx, files) ==
    IF idx = 0 THEN accessions
    ELSE IF <<accessions[idx], EXT>> \in files
    THEN RemoveReverse(PopAt(accessions, idx), idx - 1, files)
    ELSE RemoveReverse(accessions, idx - 1, files)

\* the filter with the loop running upwards
_removeExistingForward(accessions, files) ==
    RemoveForward(accessions, 1, GlobDotFna(files))

_removeExistingAccessions(accessions, files) ==
    RemoveReverse(accessions, Len(accessions), GlobDotFna(files))

_findMissingAccessions(accessions, files) ==
    { a \in Range(accessions) : a \notin GlobFnaStems(files) }

(***************************************************************************)
(* BlastHit, __parseBlastTable                                             *)
(***************************************************************************)
BlastHit(query, subject, length, coverage, pid) ==
    [query |-> query, subject |-> subject, length |-> length,
     coverage |-> coverage, pid |-> pid]

\* the hits a blastn table may hold (coverage and identity in percent)
Hits ==
    { BlastHit("deletion",    "c1", 40, 90, 95),
      BlastHit("insertion",   "c2", 30, 95, 80),
      BlastHit("full length", "c1", 20, 95, 99),
      BlastHit("insertion",   "c1", 50, 95, 99),
      BlastHit("deletion",    "c2", 60, 90, 99),
      BlastHit("full length", "c2", 10, 99, 80) }

HitLists == SeqsUpTo(Hits, MaxHits)

\* the tables the blastn runs of the pipeline produce
BlastTables ==
    SeqsUpTo({ h \in Hits : h.coverage = 95 /\ h.length < 40 }, MaxHits)

\* a comparison that looks at the identity before the coverage
GtPidFirst(self, other) ==
    IF self.pid > other.pid THEN TRUE
    ELSE IF self.pid < other.pid THEN FALSE
    ELSE IF self.coverage > other.coverage THEN TRUE
    ELSE FALSE

\* BlastHit.__gt__
Gt(self, other) ==
    IF self.coverage > other.coverage THEN TRUE
    ELSE IF self.coverage < other.coverage THEN FALSE
    ELSE IF self.pid > other.pid THEN TRUE
    ELSE IF self.pid < other.pid THEN FALSE
    ELSE FALSE

\* a comparison that never looks at the identity
LtCoverageOnly(self, other) ==
    IF self.coverage < other.coverage THEN TRUE
    ELSE FALSE

\* BlastHit.__lt__
Lt(self, other) ==
    IF self.coverage < other.coverage THEN TRUE
    ELSE IF self.coverage > other.coverage THEN FALSE
    ELSE IF self.pid < other.pid THEN TRUE
    ELSE IF self.pid > other.pid THEN FALSE
    ELSE FALSE

RECURSIVE MaxFrom(_, _)
\* max(list): the running maximum is replaced by an item that is > it
MaxFrom(best, rest) ==
    IF rest = <<>> THEN best
    ELSE MaxFrom(IF Gt(Head(rest), best) THEN Head(rest) ELSE best, Tail(rest))

PyMax(list) == MaxFrom(Head(list), Tail(list))

\* a line is the sequence of its tab-separated fields, followed by EOL when
\* the line ends with a newline character
EOL == "\n"

\* line[:-1] when line[-1] is the newline character
Chomp(line) ==
    IF line[Len(line)] = EOL THEN SubSeq(line, 1, Len(line) - 1) ELSE line

\* str.split: the fields; the empty string gives one empty field
Split(line) == IF line = <<>> THEN <<"">> ELSE line

\* int(str) raises ValueError unless the field is an integer literal
IntOk(field) == field \in {"12"}

\* float(str) raises ValueError unless the field is a number literal
FloatOk(field) == field \in {"12", "95.0"}

NumberOf(field) == IF field = "12" THEN 12 ELSE 95

\* the arguments of the constructor call in the order they are evaluated:
\* the index into the row and the conversion applied
CallArgs ==
    <<[col |-> 1, conv |-> "str"], [col |-> 2, conv |-> "str"],
      [col |-> 3, conv |-> "int"], [col |-> 8, conv |-> "float"],
      [col |-> 9, conv |-> "float"], [col |-> 4, conv |-> "int"],
      [col |-> 5, conv |-> "int"], [col |-> 6, conv |-> "int"],
      [col |-> 7, conv |-> "int"]>>

\* what evaluating one argument raises, or None
ArgError(row, arg) ==
    IF arg.col > Len(row) THEN "IndexError"
    ELSE IF arg.conv = "int" /\ ~IntOk(row[arg.col]) THEN "ValueError"
    ELSE IF arg.conv = "float" /\ ~FloatOk(row[arg.col]) THEN "ValueError"
    ELSE None

\* the first argument whose evaluation raises, or 0
FirstError(row) ==
    IF \A k \in 1..Len(CallArgs) : ArgError(row, CallArgs[k]) = None THEN 0
    ELSE CHOOSE k \in 1..Len(CallArgs) :
             /\ ArgError(row, CallArgs[k]) # None
             /\ \A j \in 1..(k - 1) : ArgError(row, CallArgs[j]) = None

\* BlastHit.parseLine: the hit, or the exception raised
parseLine(line) ==
    IF line = <<>> THEN [ok |-> FALSE, error |-> "IndexError"]
    ELSE LET row == Split(Chomp(line))
         IN  IF FirstError(row) # 0
             THEN [ok |-> FALSE, error |-> ArgError(row, CallArgs[FirstError(row)])]
             ELSE [ok |-> TRUE,
                   hit |-> BlastHit(row[1], row[2], NumberOf(row[3]),
                                    NumberOf(row[8]), NumberOf(row[9])),
                   query_coord |-> <<NumberOf(row[4]), NumberOf(row[5])>>,
                   hit_coord |-> <<NumberOf(row[6]), NumberOf(row[7])>>]

\* the fields a blastn table may hold in a numeric column
NumericFields == {"12", "95.0", "x"}

\* rows of MaxFields fields: query id, subject id, length, the four
\* coordinates (the first three always integers), coverage, identity, then
\* the fields beyond the ninth
FullRows ==
    { <<"deletion", "c1", f[1], "12", "12", "12", f[2], f[3], f[4]>> \o extra :
        f \in [1..4 -> NumericFields],
        extra \in [1..(MaxFields - 9) -> NumericFields] }

\* the lines of a table: an empty line, and rows cut after 8 or more fields
TableLines ==
    { <<EOL>> }
    \cup { SubSeq(full, 1, n) \o <<EOL>> : full \in FullRows, n \in 8..MaxFields }
    \cup { SubSeq(full, 1, n) : full \in FullRows, n \in 8..MaxFields }

\* a function of the program that is not being called
Idle == [done |-> FALSE]

\* no call of __parseBlastTable has returned
Pending == <<"pending">>

\* __parseBlastTable on the parsed hits: <<allele, contig>>
__parseBlastTable(allHitsL) ==
    IF allHitsL = <<>> THEN <<ABSENT, None>>
    ELSE <<PyMax(allHitsL).query, PyMax(allHitsL).subject>>

(***************************************************************************)
(* __processAriba                                                          *)
(***************************************************************************)
INS == "insertion"

FUL == "full length"

DEL == "deletion"

AMB == "ambiguous"

ABS == "absent"

Rep(c, n) == [i \in 1..n |-> c]

INSERTION == <<"g">> \o Rep("a", 9) \o <<"g">>

FULL == <<"g">> \o Rep("a", 8) \o <<"g">>

DELETION == <<"g">> \o Rep("a", 7) \o <<"g">>

\* str.lower() of one character
LowerChar(c) ==
    CASE c = "A" -> "a" [] c = "C" -> "c" [] c = "G" -> "g" [] c = "T" -> "t"
      [] OTHER -> c

Lower(seq) == [i \in 1..Len(seq) |-> LowerChar(seq[i])]

\* sub in seq
Contains(sub, seq) ==
    \E k \in 0..(Len(seq) - Len(sub)) : \A i \in 1..Len(sub) : seq[k + i] = sub[i]

\* the chain without .lower(): upper-case sequences match nothing
FragmentAlleleCaseSensitive(rec) ==
    IF Contains(INSERTION, rec) THEN INS
    ELSE IF Contains(FULL, rec) THEN FUL
    ELSE IF Contains(DELETION, rec) THEN DEL
    ELSE AMB

\* the if/elif chain on one record
FragmentAllele(rec) ==
    IF Contains(INSERTION, Lower(rec)) THEN INS
    ELSE IF Contains(FULL, Lower(rec)) THEN FUL
    ELSE IF Contains(DELETION, Lower(rec)) THEN DEL
    ELSE AMB

\* three independent ifs: a record adds every allele whose marker it holds
FragmentAllelesEveryMarker(recs) ==
    UNION { (IF Contains(INSERTION, Lower(recs[i])) THEN {INS} ELSE {})
            \cup (IF Contains(FULL, Lower(recs[i])) THEN {FUL} ELSE {})
            \cup (IF Contains(DELETION, Lower(recs[i])) THEN {DEL} ELSE {})
            \cup (IF FragmentAllele(recs[i]) = AMB THEN {AMB} ELSE {})
            : i \in 1..Len(recs) }

\* the loop over the records: the set of alleles
FragmentAlleles(recs) == { FragmentAllele(recs[i]) : i \in 1..Len(recs) }

\* a decision that lets ambiguous win over the one other allele
DecideAmbiguousWins(alleles) ==
    IF alleles = {} THEN [ok |-> TRUE, allele |-> ABS, names |-> {}]
    ELSE IF Cardinality(alleles) = 1
    THEN [ok |-> TRUE, allele |-> CHOOSE a \in alleles : TRUE, names |-> {}]
    ELSE IF AMB \in alleles /\ Cardinality(alleles \ {AMB}) = 1
    THEN [ok |-> TRUE, allele |-> AMB, names |-> {}]
    ELSE [ok |-> FALSE, allele |-> None, names |-> alleles \ {AMB}]

\* the decision on the set of alleles: [ok, allele] or [ok = FALSE, names]
Decide(alleles) ==
    IF alleles = {} THEN [ok |-> TRUE, allele |-> ABS, names |-> {}]
    ELSE IF Cardinality(alleles) = 1
    THEN [ok |-> TRUE, allele |-> CHOOSE a \in alleles : TRUE, names |-> {}]
    ELSE IF AMB \in alleles
    THEN IF Cardinality(alleles \ {AMB}) = 1
         THEN [ok |-> TRUE, allele |-> CHOOSE a \in alleles \ {AMB} : TRUE,
               names |-> {}]
         ELSE [ok |-> FALSE, allele |-> None, names |-> alleles \ {AMB}]
    ELSE [ok |-> FALSE, allele |-> None, names |-> alleles]

\* a classifier that answers ambiguous instead of raising
__processAribaNeverRaises(recs) ==
    IF Decide(FragmentAlleles(recs)).ok THEN Decide(FragmentAlleles(recs))
    ELSE [ok |-> TRUE, allele |-> AMB, names |-> {}]

__processAriba(recs) == Decide(FragmentAlleles(recs))

\* assembled fragments an ariba run may produce
FragIns == <<"c">> \o INSERTION

FragFull == <<"G">> \o Rep("A", 8) \o <<"G", "T">>

FragDel == DELETION \o <<"c">>

FragAmb == <<"g", "a", "a", "g", "c">>

FragInsDel == INSERTION \o <<"t">> \o DELETION

FragInsUpper == <<"G">> \o Rep("A", 9) \o <<"G">>

FragInsMixed == <<"t", "G", "a", "A", "a", "A", "a", "A", "a", "A", "a", "g">>

FragDelFull == DELETION \o <<"c">> \o FULL

Frags ==
    {FragIns, FragFull, FragDel, FragAmb, FragInsDel, FragInsUpper,
     FragInsMixed, FragDelFull}

FragLists == SeqsUpTo(Frags, MaxRecs)

\* the fragments the ariba runs of the pipeline produce
AribaOutputs == SeqsUpTo({FragIns, FragDel}, MaxFrags)

(***************************************************************************)
(* The pipeline: _runner, _runAllBlasts, _runAllAribas, _writeResults,     *)
(* _cleanup                                                                *)
(***************************************************************************)
VARIABLES
    manifest,     \* the lines of the input file
    seqfiles,     \* the files of the sequence directory
    cpus,         \* size of the worker pools
    delete,       \* the --delete flag
    pc,           \* the stage _runner is in
    error,        \* the step whose exception ended the run, or None
    parsed,       \* dict key -> <<accession, srr>>
    accessions,   \* the list handed to the assembly downloader
    missing,      \* set of accessions without a sequence file
    pargs,        \* argument list of the blastn pool: <<key, accession>>
    ptask,        \* per blastn task: status and what _blastn returned
    results,      \* dict key -> allele
    srrs,         \* dict key -> srr of the genomes that need ariba
    sargs,        \* argument list of the ariba pool: <<key, srr>>
    stask,        \* per ariba task: status and what _ariba returned
    dbBuilds,     \* runs of ariba prepareref: by _runAllAribas, and by which tasks
    dirs,         \* the working directories that exist
    report,       \* the rows written to the output file
    allHitsL,     \* __parseBlastTable: the hits of the table being parsed
    blastCall,    \* __parseBlastTable: what it returned, or Pending
    cmpCall,      \* BlastHit.__gt__/__lt__: three hits and the comparisons made
    aribaCall,    \* __processAriba: the fragments and what it returned
    resolver,     \* _removeExistingAccessions: work list, directory, returns
    lineCall      \* BlastHit.parseLine: the row and what it returned

pipeVars ==
    <<manifest, seqfiles, cpus, delete, pc, error, parsed, accessions, missing,
      pargs, ptask, results, srrs, sargs, stask, dbBuilds, dirs, report>>

callVars == <<allHitsL, blastCall, cmpCall, aribaCall, resolver, lineCall>>

vars == <<pipeVars, callVars>>

_BLAST_DIR == "blast_results"

_BLAST_DB == "blast_db"

_ARIBA_DB == "ariba_db"

_ARIBA_DIR == "ariba_results"

Init ==
    /\ manifest \in Manifests
    /\ seqfiles \in SUBSET SeqFiles
    /\ cpus \in 1..MaxCpus
    /\ delete \in BOOLEAN
    /\ pc = "PARSE_INPUT"
    /\ error = None
    /\ parsed = <<>>
    /\ accessions = <<>>
    /\ missing = {}
    /\ pargs = <<>>
    /\ ptask = <<>>
    /\ results = <<>>
    /\ srrs = <<>>
    /\ sargs = <<>>
    /\ stask = <<>>
    /\ dbBuilds = [main |-> 0, workers |-> {}]
    /\ dirs = {}
    /\ report = <<>>
    /\ allHitsL = <<>>
    /\ blastCall = Pending
    /\ cmpCall = Idle
    /\ aribaCall = Idle
    /\ resolver = Idle
    /\ lineCall = Idle

\* an exception that is caught and dropped: the run goes on
RaiseSwallowed(step) ==
    /\ pc' = pc
    /\ error' = step

\* an uncaught exception ends the process
Raise(step) ==
    /\ pc' = "ABORTED"
    /\ error' = step

\* [x for x,y in parsed.values()]
AccessionList(d) == [i \in 1..Len(d) |-> d[i][2][1]]

\* _runner, lines 277-288
ParseInput ==
    /\ pc = "PARSE_INPUT"
    /\ IF ParseOk(manifest)
       THEN /\ parsed' = _parseFile(manifest)
            /\ accessions' =
                   _removeExistingAccessions(AccessionList(parsed'), seqfiles)
            /\ pc' = "RESOLVE_ACCESSIONS"
            /\ UNCHANGED error
       ELSE /\ Raise("parse")
            /\ UNCHANGED <<parsed, accessions>>
    /\ UNCHANGED <<manifest, seqfiles, cpus, delete, missing, pargs, ptask,
                   results, srrs, sargs, stask, dbBuilds, dirs, report>>
    /\ UNCHANGED callVars

\* _runner, lines 290-292: the downloader fetches some of the accessions
DownloadAssemblies ==
    /\ pc = "RESOLVE_ACCESSIONS"
    /\ \E got \in SUBSET Range(accessions) :
          /\ seqfiles' = seqfiles \cup { <<a, EXT>> : a \in got }
          /\ \/ /\ missing' = _findMissingAccessions(accessions, seqfiles')
                /\ pc' = "DISPATCH_PRIMARY"
                /\ UNCHANGED error
             \/ /\ Raise("download")
                /\ UNCHANGED missing
    /\ UNCHANGED <<manifest, cpus, delete, parsed, accessions, pargs, ptask,
                   results, srrs, sargs, stask, dbBuilds, dirs, report>>
    /\ UNCHANGED callVars

\* _runAllBlasts, lines 126-144: one argument per key whose accession is there
BlastArgs(d, miss) ==
    SelectSeq([i \in 1..Len(d) |-> <<d[i][1], d[i][2][1]>>],
              LAMBDA a : a[2] \notin miss)

Queued == [status |-> "queued", allele |-> None, contig |-> None]

\* _runAllBlasts, lines 126-147
DispatchPrimary ==
    /\ pc = "DISPATCH_PRIMARY"
    /\ pargs' = BlastArgs(parsed, missing)
    /\ ptask' = [i \in 1..Len(pargs') |-> Queued]
    /\ dirs' = IF pargs' = <<>> THEN dirs ELSE dirs \cup {_BLAST_DIR}
    /\ pc' = "PRIMARY_FANOUT"
    /\ UNCHANGED <<manifest, seqfiles, cpus, delete, error, parsed, accessions,
                   missing, results, srrs, sargs, stask, dbBuilds, report>>
    /\ UNCHANGED callVars

Running(tasks) == { i \in 1..Len(tasks) : tasks[i].status \notin {"queued", "done", "failed"} }

\* the pool hands out the tasks in list order, to at most cpus processes
NextTask(tasks, i) ==
    /\ i \in 1..Len(tasks)
    /\ tasks[i].status = "queued"
    /\ \A j \in 1..(i - 1) : tasks[j].status # "queued"
    /\ Cardinality(Running(tasks)) < cpus

\* __makeBlastDb and __runBlast: params._blastDb and params._blastFn
BlastWorkPaths(arg) == { <<_BLAST_DB, arg[2]>>, <<_BLAST_DIR, arg[2]>> }

\* a pool process takes the next blastn task: _runOneBlastn starts
PrimaryStart(i) ==
    /\ pc = "PRIMARY_FANOUT"
    /\ NextTask(ptask, i)
    /\ ptask' = [ptask EXCEPT ![i].status = "running"]
    /\ UNCHANGED <<manifest, seqfiles, cpus, delete, pc, error, parsed,
                   accessions, missing, pargs, results, srrs, sargs, stask,
                   dbBuilds, dirs, report>>
    /\ UNCHANGED callVars

\* _blastn: makeblastdb, blastn, __parseBlastTable; a tool failure raises
PrimaryFinish(i) ==
    /\ pc = "PRIMARY_FANOUT"
    /\ i \in 1..Len(ptask)
    /\ ptask[i].status = "running"
    /\ \/ /\ <<pargs[i][2], EXT>> \in seqfiles
          /\ \E hits \in BlastTables :
                ptask' = [ptask EXCEPT
                            ![i] = [status |-> "done",
                                    allele |-> __parseBlastTable(hits)[1],
                                    contig |-> __parseBlastTable(hits)[2]]]
          /\ dirs' = dirs \cup {_BLAST_DB}
          /\ UNCHANGED <<pc, error>>
       \/ /\ ptask' = [ptask EXCEPT ![i].status = "failed"]
          /\ Raise("primary")
          /\ UNCHANGED dirs
    /\ UNCHANGED <<manifest, seqfiles, cpus, delete, parsed, accessions,
                   missing, pargs, results, srrs, sargs, stask, dbBuilds,
                   report>>
    /\ UNCHANGED callVars

\* a join that does not wait for the running tasks
AllStarted(tasks) == \A i \in 1..Len(tasks) : tasks[i].status # "queued"

AllDone(tasks) == \A i \in 1..Len(tasks) : tasks[i].status = "done"

\* _runOneBlastn returns (key, allele); starmap keeps the order of the arguments
BlastResults(args, tasks) ==
    DictUpdate(<<>>, [i \in 1..Len(args) |-> <<args[i][1], tasks[i].allele>>])

\* the fallback set without line 301-302: the missing genomes are dropped
FallbackSrrsAbsentOnly(d, res, miss) ==
    DictUpdate(<<>>,
        SelectSeq([i \in 1..Len(res) |-> <<res[i][1], DictGet(d, res[i][1])[2]>>],
                  LAMBDA e : DictGet(res, e[1]) = ABSENT))

\* the fallback set without line 300: the absent calls are dropped
FallbackSrrsMissingOnly(d, res, miss) ==
    DictUpdate(<<>>,
        SelectSeq([i \in 1..Len(d) |-> <<d[i][1], d[i][2][2]>>],
                  LAMBDA e : DictGet(d, e[1])[1] \in miss))

\* _runner, lines 300-302
FallbackSrrs(d, res, miss) ==
    DictUpdate(
        DictUpdate(<<>>,
            SelectSeq([i \in 1..Len(res) |-> <<res[i][1], DictGet(d, res[i][1])[2]>>],
                      LAMBDA e : DictGet(res, e[1]) = ABSENT)),
        SelectSeq([i \in 1..Len(d) |-> <<d[i][1], d[i][2][2]>>],
                  LAMBDA e : DictGet(d, e[1])[1] \in miss))

\* starmap returns once every task is done: lines 148-153 and 299-305
PrimaryJoin ==
    /\ pc = "PRIMARY_FANOUT"
    /\ AllDone(ptask)
    /\ results' = BlastResults(pargs, ptask)
    /\ srrs' = FallbackSrrs(parsed, results', missing)
    /\ pc' = IF Len(srrs') > 0 THEN "DOWNLOAD_READS" ELSE "WRITE_REPORT"
    /\ UNCHANGED <<manifest, seqfiles, cpus, delete, error, parsed, accessions,
                   missing, pargs, ptask, sargs, stask, dbBuilds, dirs, report>>
    /\ UNCHANGED callVars

\* _runner, line 307: one download of the reads of the whole fallback set
DownloadSrrs ==
    /\ pc = "DOWNLOAD_READS"
    /\ \/ /\ pc' = "DISPATCH_SECONDARY"
          /\ UNCHANGED error
       \/ Raise("download reads")
    /\ UNCHANGED <<manifest, seqfiles, cpus, delete, parsed, accessions,
                   missing, pargs, ptask, results, srrs, sargs, stask,
                   dbBuilds, dirs, report>>
    /\ UNCHANGED callVars

\* _runAllAribas, lines 190-207: the arguments, in the order of srrs.items()
AribaArgs(d) == d

\* _runAllAribas, lines 186-207: _buildAribaDb runs in the first iteration
DispatchSecondary ==
    /\ pc = "DISPATCH_SECONDARY"
    /\ \/ /\ sargs' = AribaArgs(srrs)
          /\ stask' = [i \in 1..Len(sargs') |-> Queued]
          /\ dbBuilds' = IF Len(srrs) > 0
                         THEN [dbBuilds EXCEPT !.main = @ + 1] ELSE dbBuilds
          /\ dirs' = IF Len(srrs) > 0
                     THEN dirs \cup {_ARIBA_DB, _ARIBA_DIR} ELSE dirs
          /\ pc' = "SECONDARY_FANOUT"
          /\ UNCHANGED error
       \/ /\ Len(srrs) > 0
          /\ Raise("build database")
          /\ UNCHANGED <<sargs, stask, dbBuilds, dirs>>
    /\ UNCHANGED <<manifest, seqfiles, cpus, delete, parsed, accessions,
                   missing, pargs, ptask, results, srrs, report>>
    /\ UNCHANGED callVars

\* what an ariba task writes: params._aribaDb in __buildAribaDb, then
\* params._aribaDir = ./<srr> in __runAriba
AribaWrites(arg, task) ==
    IF task.status = "building" THEN { <<_ARIBA_DB, "">> }
    ELSE IF task.status = "running" THEN { <<".", arg[2]>> }
    ELSE {}

\* what an ariba task reads: params._aribaDb in __runAriba
AribaReads(arg, task) ==
    IF task.status = "running" THEN { <<_ARIBA_DB, "">> } ELSE {}

\* a pool process takes the next ariba task: _runOneAriba enters _ariba
SecondaryStart(i) ==
    /\ pc = "SECONDARY_FANOUT"
    /\ NextTask(stask, i)
    /\ stask' = [stask EXCEPT ![i].status = "building"]
    /\ UNCHANGED <<manifest, seqfiles, cpus, delete, pc, error, parsed,
                   accessions, missing, pargs, ptask, results, srrs, sargs,
                   dbBuilds, dirs, report>>
    /\ UNCHANGED callVars

\* _ariba, line 19: __buildAribaDb(params), prepareref -f on the shared database
SecondaryBuildDb(i) ==
    /\ pc = "SECONDARY_FANOUT"
    /\ i \in 1..Len(stask)
    /\ stask[i].status = "building"
    /\ \/ /\ stask' = [stask EXCEPT ![i].status = "running"]
          /\ dbBuilds' = [dbBuilds EXCEPT !.workers = @ \cup {i}]
          /\ UNCHANGED <<pc, error>>
       \/ /\ stask' = [stask EXCEPT ![i].status = "failed"]
          /\ Raise("secondary")
          /\ UNCHANGED dbBuilds
    /\ UNCHANGED <<manifest, seqfiles, cpus, delete, parsed, accessions,
                   missing, pargs, ptask, results, srrs, sargs, dirs, report>>
    /\ UNCHANGED callVars

\* _ariba, lines 20-22: __runAriba then __processAriba
SecondaryFinish(i) ==
    /\ pc = "SECONDARY_FANOUT"
    /\ i \in 1..Len(stask)
    /\ stask[i].status = "running"
    /\ \/ \E recs \in AribaOutputs :
             /\ dirs' = dirs \cup {sargs[i][2]}
             /\ IF __processAriba(recs).ok
                THEN /\ stask' = [stask EXCEPT
                                    ![i] = [status |-> "done",
                                            allele |-> __processAriba(recs).allele,
                                            contig |-> None]]
                     /\ UNCHANGED <<pc, error>>
                ELSE /\ stask' = [stask EXCEPT ![i].status = "failed"]
                     /\ Raise("conflict")
       \/ /\ stask' = [stask EXCEPT ![i].status = "failed"]
          /\ Raise("secondary")
          /\ UNCHANGED dirs
    /\ UNCHANGED <<manifest, seqfiles, cpus, delete, parsed, accessions,
                   missing, pargs, ptask, results, srrs, sargs, dbBuilds,
                   report>>
    /\ UNCHANGED callVars

\* _runOneAriba returns (key, allele)
AribaResults(args, tasks) ==
    DictUpdate(<<>>, [i \in 1..Len(args) |-> <<args[i][1], tasks[i].allele>>])

\* an update in which the earlier entry wins
MergePrimaryWins(res, secondary) == DictUpdate(secondary, res)

\* results.update(...), line 311
Merge(res, secondary) == DictUpdate(res, secondary)

\* starmap returns once every task is done: lines 210-216 and line 311
SecondaryJoin ==
    /\ pc = "SECONDARY_FANOUT"
    /\ AllDone(stask)
    /\ results' = Merge(results, AribaResults(sargs, stask))
    /\ pc' = "WRITE_REPORT"
    /\ UNCHANGED <<manifest, seqfiles, cpus, delete, error, parsed, accessions,
                   missing, pargs, ptask, srrs, sargs, stask, dbBuilds, dirs,
                   report>>
    /\ UNCHANGED callVars

\* a writer that puts the allele in the first column
ReportRowsAlleleFirst(res) == [i \in 1..Len(res) |-> <<res[i][2], res[i][1]>>]

\* _writeResults: one line key<TAB>allele per item of results
ReportRows(res) == [i \in 1..Len(res) |-> <<res[i][1], res[i][2]>>]

\* _runner, line 315
WriteReport ==
    /\ pc = "WRITE_REPORT"
    /\ report' = ReportRows(results)
    /\ pc' = "CLEANUP"
    /\ UNCHANGED <<manifest, seqfiles, cpus, delete, error, parsed, accessions,
                   missing, pargs, ptask, results, srrs, sargs, stask,
                   dbBuilds, dirs>>
    /\ UNCHANGED callVars

\* the directories _cleanup removes, in order
CleanupDirs == <<_BLAST_DIR, _BLAST_DB, _ARIBA_DB, _ARIBA_DIR>>

\* shutil.rmtree raises on a directory that does not exist
FirstAbsent(ds) ==
    IF \E i \in 1..Len(CleanupDirs) : CleanupDirs[i] \notin ds
    THEN CHOOSE i \in 1..Len(CleanupDirs) :
             /\ CleanupDirs[i] \notin ds
             /\ \A j \in 1..(i - 1) : CleanupDirs[j] \in ds
    ELSE Len(CleanupDirs) + 1

\* _cleanup
Cleanup ==
    /\ pc = "CLEANUP"
    /\ dirs' = dirs \ { CleanupDirs[j] : j \in 1..(FirstAbsent(dirs) - 1) }
    /\ IF FirstAbsent(dirs) <= Len(CleanupDirs)
       THEN /\ Raise("cleanup")
            /\ UNCHANGED seqfiles
       ELSE /\ seqfiles' = IF delete THEN {} ELSE seqfiles
            /\ pc' = "DONE"
            /\ UNCHANGED error
    /\ UNCHANGED <<manifest, cpus, delete, parsed, accessions, missing, pargs,
                   ptask, results, srrs, sargs, stask, dbBuilds, report>>
    /\ UNCHANGED callVars

Next ==
    \/ ParseInput
    \/ DownloadAssemblies
    \/ DispatchPrimary
    \/ \E i \in 1..MaxRows : PrimaryStart(i)
    \/ \E i \in 1..MaxRows : PrimaryFinish(i)
    \/ PrimaryJoin
    \/ DownloadSrrs
    \/ DispatchSecondary
    \/ \E i \in 1..MaxRows : SecondaryStart(i)
    \/ \E i \in 1..MaxRows : SecondaryBuildDb(i)
    \/ \E i \in 1..MaxRows : SecondaryFinish(i)
    \/ SecondaryJoin
    \/ WriteReport
    \/ Cleanup

Spec == Init /\ [][Next]_vars

(***************************************************************************)
(* __parseBlastTable on its own: every table of HitLists                   *)
(***************************************************************************)
InitHits ==
    /\ manifest = <<>>
    /\ seqfiles = {}
    /\ cpus = 1
    /\ delete = FALSE
    /\ pc = "DONE"
    /\ error = None
    /\ parsed = <<>>
    /\ accessions = <<>>
    /\ missing = {}
    /\ pargs = <<>>
    /\ ptask = <<>>
    /\ results = <<>>
    /\ srrs = <<>>
    /\ sargs = <<>>
    /\ stask = <<>>
    /\ dbBuilds = [main |-> 0, workers |-> {}]
    /\ dirs = {}
    /\ report = <<>>
    /\ allHitsL \in HitLists
    /\ blastCall = Pending
    /\ cmpCall = Idle
    /\ aribaCall = Idle
    /\ resolver = Idle
    /\ lineCall = Idle

ParseBlastTable ==
    /\ blastCall = Pending
    /\ blastCall' = __parseBlastTable(allHitsL)
    /\ UNCHANGED <<allHitsL, pipeVars, cmpCall, aribaCall, resolver, lineCall>>

NextHits == ParseBlastTable

SpecHits == InitHits /\ [][NextHits]_vars

(***************************************************************************)
(* BlastHit.__gt__ and __lt__ on their own: every three hits of Hits       *)
(***************************************************************************)
PipelineIdle ==
    /\ manifest = <<>>
    /\ seqfiles = {}
    /\ cpus = 1
    /\ delete = FALSE
    /\ pc = "DONE"
    /\ error = None
    /\ parsed = <<>>
    /\ accessions = <<>>
    /\ missing = {}
    /\ pargs = <<>>
    /\ ptask = <<>>
    /\ results = <<>>
    /\ srrs = <<>>
    /\ sargs = <<>>
    /\ stask = <<>>
    /\ dbBuilds = [main |-> 0, workers |-> {}]
    /\ dirs = {}
    /\ report = <<>>

InitOrder ==
    /\ PipelineIdle
    /\ allHitsL = <<>>
    /\ blastCall = Pending
    /\ cmpCall \in [a : Hits, b : Hits, c : Hits, done : {FALSE}]
    /\ aribaCall = Idle
    /\ resolver = Idle
    /\ lineCall = Idle

\* a > b, a < b, b < a, b > c and a > c are evaluated
Compare ==
    /\ ~cmpCall.done
    /\ cmpCall' = [a |-> cmpCall.a, b |-> cmpCall.b, c |-> cmpCall.c,
                   done |-> TRUE,
                   out |-> [gt_ab |-> Gt(cmpCall.a, cmpCall.b),
                            lt_ab |-> Lt(cmpCall.a, cmpCall.b),
                            lt_ba |-> Lt(cmpCall.b, cmpCall.a),
                            gt_bc |-> Gt(cmpCall.b, cmpCall.c),
                            gt_ac |-> Gt(cmpCall.a, cmpCall.c)]]
    /\ UNCHANGED <<pipeVars, allHitsL, blastCall, aribaCall, resolver, lineCall>>

NextOrder == Compare

SpecOrder == InitOrder /\ [][NextOrder]_vars

(***************************************************************************)
(* __processAriba on its own: every fragment list of FragLists             *)
(***************************************************************************)
InitAriba ==
    /\ PipelineIdle
    /\ allHitsL = <<>>
    /\ blastCall = Pending
    /\ cmpCall = Idle
    /\ aribaCall \in [recs : FragLists, done : {FALSE}]
    /\ resolver = Idle
    /\ lineCall = Idle

ProcessAriba ==
    /\ ~aribaCall.done
    /\ aribaCall' = [recs |-> aribaCall.recs, done |-> TRUE,
                     out |-> __processAriba(aribaCall.recs)]
    /\ UNCHANGED <<pipeVars, allHitsL, blastCall, cmpCall, resolver, lineCall>>

NextAriba == ProcessAriba

SpecAriba == InitAriba /\ [][NextAriba]_vars

(***************************************************************************)
(* _removeExistingAccessions on its own: the filter runs, one of the files *)
(* it asked for arrives, the filter runs again on the same work list       *)
(***************************************************************************)
WorkLists == SeqsUpTo({"a1", "a2"}, MaxAccns)

ResolverFiles == SeqFiles \cup { <<"a2", EXT>> }

InitResolver ==
    /\ PipelineIdle
    /\ allHitsL = <<>>
    /\ blastCall = Pending
    /\ cmpCall = Idle
    /\ aribaCall = Idle
    /\ resolver \in [work : WorkLists, files : SUBSET ResolverFiles,
                      done : {FALSE}, step : {"start"}, seqdir : {{}},
                      first : {<<>>}, second : {<<>>}]
    /\ lineCall = Idle

\* the filter runs on the work list; the directory it saw is noted
FilterFirst ==
    /\ resolver.step = "start"
    /\ resolver' = [resolver EXCEPT
           !.first = _removeExistingAccessions(resolver.work, resolver.files),
           !.seqdir = resolver.files,
           !.step = "filtered",
           !.done = TRUE]
    /\ UNCHANGED <<pipeVars, allHitsL, blastCall, cmpCall, aribaCall, lineCall>>

\* the file of one accession of the needs-download list is added
FileArrives ==
    /\ resolver.step = "filtered"
    /\ \E a \in Range(resolver.first) :
           resolver' = [resolver EXCEPT !.files = @ \cup { <<a, EXT>> },
                                       !.step = "added"]
    /\ UNCHANGED <<pipeVars, allHitsL, blastCall, cmpCall, aribaCall, lineCall>>

\* the filter runs again on the same work list
FilterAgain ==
    /\ resolver.step = "added"
    /\ resolver' = [resolver EXCEPT
           !.second = _removeExistingAccessions(resolver.work, resolver.files),
           !.step = "refiltered"]
    /\ UNCHANGED <<pipeVars, allHitsL, blastCall, cmpCall, aribaCall, lineCall>>

NextResolver == FilterFirst \/ FileArrives \/ FilterAgain

SpecResolver == InitResolver /\ [][NextResolver]_vars

(***************************************************************************)
(* BlastHit.parseLine on its own: every line of TableLines                 *)
(***************************************************************************)
InitLine ==
    /\ PipelineIdle
    /\ allHitsL = <<>>
    /\ blastCall = Pending
    /\ cmpCall = Idle
    /\ aribaCall = Idle
    /\ resolver = Idle
    /\ lineCall \in [line : TableLines, done : {FALSE}]

ParseLine ==
    /\ ~lineCall.done
    /\ lineCall' = [line |-> lineCall.line, done |-> TRUE,
                    out |-> parseLine(lineCall.line)]
    /\ UNCHANGED <<pipeVars, allHitsL, blastCall, cmpCall, aribaCall, resolver>>

NextLine == ParseLine

SpecLine == InitLine /\ [][NextLine]_vars

(***************************************************************************)
(* Properties                                                              *)
(***************************************************************************)
KeySet(d) == { d[i][1] : i \in 1..Len(d) }

\* the genome keys of the input file
ManifestKeys == { manifest[i][1] : i \in { j \in 1..Len(manifest) : manifest[j] # BlankLine } }

\* MERGE has been passed: results is final
Merged ==
    \/ pc \in {"WRITE_REPORT", "CLEANUP", "DONE"}
    \/ pc = "ABORTED" /\ error = "cleanup"

\* C1: after MERGE the result mapping holds every genome key of the manifest
\* exactly once and no other key.
C1_EveryKeyOnce ==
    Merged =>
        /\ \A k \in ManifestKeys :
              Cardinality({ i \in 1..Len(results) : results[i][1] = k }) = 1
        /\ KeySet(results) \subseteq ManifestKeys

\* a run with two genomes, one of them without assembly, that passed MERGE
C1_Witness ==
    /\ pc = "WRITE_REPORT"
    /\ Cardinality(ManifestKeys) = 2
    /\ missing # {}
    /\ Len(pargs) = 1
    /\ Len(sargs) >= 1

\* the genomes whose primary call is absent
PrimaryAbsent == { pargs[i][1] : i \in { j \in 1..Len(pargs) : ptask[j].allele = ABSENT } }

\* the genomes whose assembly is not in the sequence directory
MissingGenomes ==
    { parsed[i][1] : i \in { j \in 1..Len(parsed) : <<parsed[j][2][1], EXT>> \notin seqfiles } }

C3_MergePrecedence ==
    Merged =>
        /\ \A i \in 1..Len(sargs) : DictGet(results, sargs[i][1]) = stask[i].allele
        /\ \A i \in 1..Len(pargs) :
              pargs[i][1] \notin KeySet(sargs) =>
                  DictGet(results, pargs[i][1]) = ptask[i].allele

\* primary absent + secondary insertion, and primary full length alone
C3_Witness ==
    /\ Merged
    /\ \E i \in 1..Len(pargs), j \in 1..Len(sargs) :
          /\ pargs[i][1] = sargs[j][1]
          /\ ptask[i].allele = ABSENT
          /\ stask[j].allele = INS
          /\ DictGet(results, pargs[i][1]) = INS
    /\ \E i \in 1..Len(pargs) :
          /\ pargs[i][1] \notin KeySet(sargs)
          /\ ptask[i].allele = FUL
          /\ DictGet(results, pargs[i][1]) = FUL

\* the report has been written
Written ==
    \/ pc \in {"CLEANUP", "DONE"}
    \/ pc = "ABORTED" /\ error = "cleanup"

RECURSIVE Dedup(_, _)
Dedup(s, seen) ==
    IF s = <<>> THEN <<>>
    ELSE IF Head(s) \in seen THEN Dedup(Tail(s), seen)
    ELSE <<Head(s)>> \o Dedup(Tail(s), seen \cup {Head(s)})

\* the genome keys in the order of the input file
ManifestOrder == Dedup([i \in 1..Len(Rows(manifest)) |-> Rows(manifest)[i][1]], {})

ReportKeys == [i \in 1..Len(report) |-> report[i][1]]

\* C4: the report lists the genomes in the order of the input manifest,
\* whichever genomes went through the secondary strategy.
C4_ReportInManifestOrder == Written => ReportKeys = ManifestOrder

\* the end-to-end scenario: genomes A then B, A called full length on contig
\* c1 by the primary detector, B absent for the primary detector and deletion
\* for the secondary detector
C5_Scenario ==
    /\ Written
    /\ ManifestOrder = <<"A", "B">>
    /\ \E i \in 1..Len(pargs) :
          pargs[i][1] = "A" /\ ptask[i].allele = FUL /\ ptask[i].contig = "c1"
    /\ \E i \in 1..Len(pargs) : pargs[i][1] = "B" /\ ptask[i].allele = ABSENT
    /\ \E j \in 1..Len(sargs) : sargs[j][1] = "B" /\ stask[j].allele = DEL
    /\ Len(sargs) = 1

\* C5 as stated: the row of A has three columns, the third is the contig.
C5_ReportCarriesContig ==
    C5_Scenario => report = << <<"A", FUL, "c1">>, <<"B", DEL>> >>

\* C5: in the end-to-end scenario the report is the row (A, full length)
\* followed by the row (B, deletion); every row has two columns and the
\* contig the primary detector selected is not in the report.
C5_ReportTwoColumns ==
    C5_Scenario => report = << <<"A", FUL>>, <<"B", DEL>> >>

C5_Witness == C5_Scenario /\ pc = "DONE"

\* C6: with a non-empty fallback set the shared ariba database is built
\* exactly once, before any secondary worker is dispatched, and no pooled
\* worker builds or rewrites it.
C6_DbBuiltOnceBeforeFanout ==
    /\ Len(sargs) > 0 => dbBuilds.main = 1
    /\ dbBuilds.workers = {}
    /\ \A i \in 1..Len(stask) : stask[i].status # "building"

Failed(tasks) == \E i \in 1..Len(tasks) : tasks[i].status = "failed"

Completed(tasks) == \A i \in 1..Len(tasks) : tasks[i].status = "done"

\* the label a completed worker returned for the key
ReturnedLabel(key, allele) ==
    \/ \E i \in 1..Len(pargs) :
          pargs[i][1] = key /\ ptask[i].status = "done" /\ ptask[i].allele = allele
    \/ \E i \in 1..Len(sargs) :
          sargs[i][1] = key /\ stask[i].status = "done" /\ stask[i].allele = allele

C7_Aborted ==
    /\ (Failed(ptask) \/ Failed(stask) \/ error # None) => pc = "ABORTED"
    /\ pc = "ABORTED" => error # None
    /\ (pc = "ABORTED" /\ error = "parse") => parsed = <<>> /\ pargs = <<>>
    /\ (pc = "ABORTED" /\ error = "download") => pargs = <<>>
    /\ (pc = "ABORTED" /\ error = "primary") => results = <<>> /\ sargs = <<>>
    /\ (pc = "ABORTED" /\ error \in {"download reads", "build database"}) =>
           sargs = <<>>
    /\ (pc = "ABORTED" /\ error \in {"secondary", "conflict"}) =>
           results = BlastResults(pargs, ptask)
    /\ (pc = "ABORTED" /\ error # "cleanup") => report = <<>>
    /\ report # <<>> => Merged
    /\ \A i \in 1..Len(results) : ReturnedLabel(results[i][1], results[i][2])

\* C7: a failing parse, download or worker ends the whole batch: no later
\* stage runs, nothing is retried, no label stands for the failure, and no
\* report row exists unless MERGE was reached.
C7_FailFast == []C7_Aborted /\ [][pc = "ABORTED" => UNCHANGED pipeVars]_vars

\* a blastn worker failed while another one had already returned its call
C7_Witness ==
    /\ pc = "ABORTED"
    /\ error = "primary"
    /\ \E i \in 1..Len(ptask) : ptask[i].status = "done"
    /\ report = <<>>

StageRank(p) ==
    CASE p = "PARSE_INPUT" -> 0
      [] p = "RESOLVE_ACCESSIONS" -> 1
      [] p = "DISPATCH_PRIMARY" -> 2
      [] p = "PRIMARY_FANOUT" -> 3
      [] p = "DOWNLOAD_READS" -> 4
      [] p = "DISPATCH_SECONDARY" -> 5
      [] p = "SECONDARY_FANOUT" -> 6
      [] p = "WRITE_REPORT" -> 7
      [] p = "CLEANUP" -> 8
      [] p = "DONE" -> 9
      [] p = "ABORTED" -> 10

C8_Barrier ==
    /\ pc \in {"DOWNLOAD_READS", "DISPATCH_SECONDARY", "SECONDARY_FANOUT"} =>
           Completed(ptask)
    /\ (\E i \in 1..Len(stask) : stask[i].status # "queued") => Completed(ptask)
    /\ (pc \in {"WRITE_REPORT", "CLEANUP", "DONE"} \/ report # <<>>) =>
           Completed(ptask) /\ Completed(stask)

\* C8: no read download and no secondary worker starts before every primary
\* worker has completed, the report is written only after every secondary
\* worker has completed, and the stages only advance.
C8_StagesAdvance ==
    []C8_Barrier /\ [][StageRank(pc') > StageRank(pc) \/ pc' = pc]_vars

\* a secondary worker runs after a primary fan-out of two workers
C8_Witness ==
    /\ pc = "SECONDARY_FANOUT"
    /\ Len(ptask) = 2
    /\ \E i \in 1..Len(stask) : stask[i].status = "running"

\* C9: no two workers of one fan-out stage write the same working file or
\* directory, or write one that the other reads.
C9_NoSharedWorkFiles ==
    /\ \A i, j \in Running(ptask) :
          i # j => BlastWorkPaths(pargs[i]) \cap BlastWorkPaths(pargs[j]) = {}
    /\ \A i, j \in Running(stask) :
          i # j =>
              AribaWrites(sargs[i], stask[i])
                  \cap (AribaWrites(sargs[j], stask[j])
                            \cup AribaReads(sargs[j], stask[j])) = {}

MaxOf(S) == CHOOSE x \in S : \A y \in S : y <= x

BestCoverage(hits) == MaxOf({ hits[i].coverage : i \in 1..Len(hits) })

BestPid(hits) ==
    MaxOf({ hits[i].pid : i \in { j \in 1..Len(hits) : hits[j].coverage = BestCoverage(hits) } })

ExampleHits ==
    << BlastHit("deletion", "c1", 40, 90, 95),
       BlastHit("insertion", "c2", 30, 95, 80),
       BlastHit("full length", "c1", 20, 95, 99) >>

\* C10: for a non-empty list of hits the primary detector returns the query
\* and subject of a hit of maximal coverage and, among those, of maximal
\* percent identity; for an empty list it returns absent and no contig.
C10_BestHit ==
    blastCall # Pending =>
        /\ allHitsL = <<>> => blastCall = <<ABSENT, None>>
        /\ allHitsL # <<>> =>
              \E i \in 1..Len(allHitsL) :
                  /\ blastCall = <<allHitsL[i].query, allHitsL[i].subject>>
                  /\ allHitsL[i].coverage = BestCoverage(allHitsL)
                  /\ allHitsL[i].pid = BestPid(allHitsL)
        /\ allHitsL = ExampleHits => blastCall = <<"full length", "c1">>

\* the example table has been parsed and its third hit was selected
C10_Witness == allHitsL = ExampleHits /\ blastCall = <<"full length", "c1">>

Compared == cmpCall.done

SameRank(x, y) == x.coverage = y.coverage /\ x.pid = y.pid

ExactlyOne(p, q, r) ==
    \/ p /\ ~q /\ ~r
    \/ ~p /\ q /\ ~r
    \/ ~p /\ ~q /\ r

\* C11: for all hits a, b, c exactly one of a > b, a < b, "equal on coverage
\* and identity" holds; a > b exactly when b < a; > is transitive; and the
\* identity decides only between hits of equal coverage.
C11_StrictOrder ==
    Compared =>
        LET a == cmpCall.a
            b == cmpCall.b
            o == cmpCall.out
        IN  /\ ExactlyOne(o.gt_ab, o.lt_ab, SameRank(a, b))
            /\ o.gt_ab <=> o.lt_ba
            /\ (o.gt_ab /\ o.gt_bc) => o.gt_ac
            /\ a.coverage # b.coverage => (o.gt_ab <=> a.coverage > b.coverage)

\* a beats b on identity alone, b beats c on coverage against the identity
C11_Witness ==
    /\ Compared
    /\ cmpCall.a.coverage = cmpCall.b.coverage
    /\ cmpCall.a.pid > cmpCall.b.pid
    /\ cmpCall.b.coverage > cmpCall.c.coverage
    /\ cmpCall.b.pid < cmpCall.c.pid
    /\ cmpCall.out.gt_ab /\ cmpCall.out.gt_bc /\ cmpCall.out.gt_ac

\* the label the fragment is given: first marker found, in the fixed order
LabelOf(rec) ==
    IF Contains(<<"g">> \o Rep("a", 9) \o <<"g">>, Lower(rec)) THEN "insertion"
    ELSE IF Contains(<<"g">> \o Rep("a", 8) \o <<"g">>, Lower(rec))
    THEN "full length"
    ELSE IF Contains(<<"g">> \o Rep("a", 7) \o <<"g">>, Lower(rec))
    THEN "deletion"
    ELSE "ambiguous"

Labels(recs) == { LabelOf(recs[i]) : i \in 1..Len(recs) }

Concrete == {"insertion", "full length", "deletion"}

Classified == aribaCall.done

\* C12: the aggregate over the fragment labels is absent for no fragment, the
\* one label when all fragments share it (ambiguous included), and the one
\* concrete label when it occurs together with ambiguous; it is a function of
\* the set of labels, so neither order nor multiplicity matters.
C12_Aggregate ==
    Classified =>
        LET L == Labels(aribaCall.recs)
            o == aribaCall.out
        IN  /\ L = {} => (o.ok /\ o.allele = "absent")
            /\ \A l \in Concrete \cup {"ambiguous"} :
                    L = {l} => (o.ok /\ o.allele = l)
            /\ \A l \in Concrete :
                    L = {l, "ambiguous"} => (o.ok /\ o.allele = l)

\* a non-matching fragment first, two insertion fragments after it
C12_Witness ==
    /\ Classified
    /\ Len(aribaCall.recs) = 3
    /\ LabelOf(aribaCall.recs[1]) = "ambiguous"
    /\ LabelOf(aribaCall.recs[2]) = "insertion"
    /\ LabelOf(aribaCall.recs[3]) = "insertion"
    /\ aribaCall.out.ok
    /\ aribaCall.out.allele = "insertion"

\* C13: two or more distinct concrete labels, with or without ambiguous
\* fragments, make the classifier fail with an error that names exactly the
\* concrete labels; no label is returned.
C13_Conflict ==
    Classified =>
        LET C == Labels(aribaCall.recs) \ {"ambiguous"}
            o == aribaCall.out
        IN  Cardinality(C) >= 2 => (~o.ok /\ o.names = C /\ o.allele = None)

\* insertion, deletion and a non-matching fragment together
C13_Witness ==
    /\ Classified
    /\ Labels(aribaCall.recs) = {"insertion", "deletion", "ambiguous"}
    /\ ~aribaCall.out.ok
    /\ aribaCall.out.names = {"insertion", "deletion"}

GAAAAAAAAAG == <<"g", "a", "a", "a", "a", "a", "a", "a", "a", "a", "g">>

OnlyFragmentHolds(marker) ==
    /\ Classified
    /\ Len(aribaCall.recs) = 1
    /\ Contains(marker, Lower(aribaCall.recs[1]))

\* C14 as stated: a genome whose only fragment contains GAAAAAAAAAG, in any
\* letter case, is classified full length.
C14_NineAIsFullLength ==
    OnlyFragmentHolds(GAAAAAAAAAG) =>
        (aribaCall.out.ok /\ aribaCall.out.allele = "full length")

\* C14 amended: a genome whose only fragment contains GAAAAAAAAAG (nine A), in
\* any letter case, is classified insertion.
C14_NineAIsInsertion ==
    OnlyFragmentHolds(GAAAAAAAAAG) =>
        (aribaCall.out.ok /\ aribaCall.out.allele = "insertion")

\* the upper-case sequence GAAAAAAAAAG itself is the only fragment
C14_Witness ==
    /\ OnlyFragmentHolds(GAAAAAAAAAG)
    /\ aribaCall.recs[1] = <<"G", "A", "A", "A", "A", "A", "A", "A", "A", "A", "G">>
    /\ aribaCall.out.allele = "insertion"

\* C20: a fragment gets one label, the first marker found in the order
\* insertion, full length, deletion, else ambiguous, whatever the letter
\* case; a lone fragment with markers of two alleles gives the label of the
\* higher priority and no conflict, and a conflict never names more labels
\* than there are fragments.
C20_OneLabelPerFragment ==
    Classified =>
        LET recs == aribaCall.recs
            o == aribaCall.out
        IN  /\ Len(recs) = 1 => (o.ok /\ o.allele = LabelOf(recs[1]))
            /\ ~o.ok => (o.names \subseteq Labels(recs)
                          /\ Cardinality(o.names) <= Len(recs))

\* the only fragment holds the deletion marker before the full-length one
C20_Witness ==
    /\ Classified
    /\ Len(aribaCall.recs) = 1
    /\ Contains(<<"g">> \o Rep("a", 7) \o <<"g", "c", "g">> \o Rep("a", 8) \o <<"g">>,
                aribaCall.recs[1])
    /\ aribaCall.out.ok
    /\ aribaCall.out.allele = "full length"

HasSequenceFile(a, files) == <<a, ".fna">> \in files

Needed(work, files) ==
    SelectSeq(work, LAMBDA a : ~HasSequenceFile(a, files))

\* C15: the filter leaves exactly the accessions without a sequence file, every
\* occurrence and in the order of the work list, so no accession with a file
\* is handed to the downloader; run again after one of the needed files has
\* been added, it returns strictly fewer entries.
C15_FilterExact ==
    /\ resolver.done =>
           /\ resolver.first = Needed(resolver.work, resolver.seqdir)
           /\ \A a \in Range(resolver.first) :
                  ~HasSequenceFile(a, resolver.seqdir)
    /\ (resolver.done /\ resolver.step = "refiltered") =>
           /\ resolver.second = Needed(resolver.work, resolver.files)
           /\ Len(resolver.second) < Len(resolver.first)

\* a1 is listed twice in a row and has a file, a stray a1.xfna is ignored, a2
\* is asked for, arrives, and the second run asks for nothing
C15_Witness ==
    /\ resolver.done
    /\ resolver.step = "refiltered"
    /\ resolver.work = <<"a1", "a1", "a2">>
    /\ resolver.seqdir = { <<"a1", ".fna">>, <<"a1", ".xfna">> }
    /\ resolver.first = <<"a2">>
    /\ resolver.second = <<>>

\* the ariba run on the genome of this key returned absent
SecondaryAbsent(k) ==
    \E j \in 1..Len(sargs) :
        /\ sargs[j][1] = k
        /\ stask[j].status = "done"
        /\ stask[j].allele = "absent"

\* C16: a genome is absent in the merged result, and in the report, only if
\* the secondary detector ran on it and returned absent; every genome the
\* primary detector called absent went to the secondary detector.
C16_AbsentOnlyFromSecondary ==
    /\ Merged =>
           /\ \A i \in 1..Len(results) :
                  results[i][2] = "absent" => SecondaryAbsent(results[i][1])
           /\ \A i \in 1..Len(pargs) :
                  ptask[i].allele = "absent" => pargs[i][1] \in KeySet(sargs)
    /\ Written =>
           \A i \in 1..Len(report) :
               report[i][2] = "absent" => SecondaryAbsent(report[i][1])

\* two genomes the primary detector called absent: ariba finds an allele in
\* one and nothing in the other, and the report has both rows
C16_Witness ==
    /\ pc = "DONE"
    /\ \E i, j \in 1..Len(pargs) :
           /\ ptask[i].allele = "absent"
           /\ ptask[j].allele = "absent"
           /\ DictGet(results, pargs[i][1]) = "absent"
           /\ DictGet(results, pargs[j][1]) = "deletion"
           /\ SecondaryAbsent(pargs[i][1])
           /\ <<pargs[i][1], "absent">> \in Range(report)
           /\ <<pargs[j][1], "deletion">> \in Range(report)

\* the tab-separated fields of the line
FieldsOf(line) ==
    IF line # <<>> /\ line[Len(line)] = "\n"
    THEN SubSeq(line, 1, Len(line) - 1) ELSE line

Numeric(field) == field \in {"12", "95.0"}

\* C17: parsing a line fails whenever it does not have exactly 9 fields or
\* one of its numeric fields (the third to the ninth) is not numeric; lines
\* with more than 9 fields fail too.
C17_MalformedLineFails ==
    lineCall.done =>
        LET fields == FieldsOf(lineCall.line)
        IN  (\/ Len(fields) # 9
             \/ \E k \in 3..9 : k <= Len(fields) /\ ~Numeric(fields[k]))
            => ~lineCall.out.ok

\* C18: the step that completes CLEANUP leaves no working directory of the
\* run (blast_results, blast_db, ariba_db, ariba_results, the output
\* directory of each ariba run) and leaves the sequence directory as it was
\* unless the delete flag is set.
C18_CleanupRemovesAll ==
    [][(pc = "CLEANUP" /\ pc' = "DONE") =>
           /\ dirs' = {}
           /\ ~delete => seqfiles' = seqfiles]_vars

\* the steps whose failure the run may end with: manifest, downloads, detectors
FailingSteps ==
    {"parse", "download", "download reads", "build database", "primary",
     "secondary", "conflict"}

\* C19: a run ends early only when the manifest is invalid or a download or
\* detector step failed; otherwise it passes MERGE, WRITE_REPORT and CLEANUP
\* and ends in DONE, also when the fallback set is empty (no secondary task is
\* dispatched) and when no genome has an assembly (no primary task is
\* dispatched).
C19_RunCompletes ==
    /\ pc = "ABORTED" => error \in FailingSteps
    /\ (Written /\ srrs = <<>>) => (sargs = <<>> /\ stask = <<>>)
    /\ (Written /\ \A k \in KeySet(parsed) :
                       <<DictGet(parsed, k)[1], ".fna">> \notin seqfiles)
           => pargs = <<>>

============================================================================
